---- MODULE Spec2Model ----
(***************************************************************************)
(* Model of src/Emotion/EmotionHandler.py: the EmotionHandler engine, its  *)
(* reward / initiative maps, the epsilon-greedy policy, the replay buffer  *)
(* and the replay (training) step.                                         *)
(*                                                                         *)
(* Number representation.  reward, initiative, feedback and the scores of  *)
(* the network are fixed-point numbers in tenths (1.0 is 10, 0.1 is 1).    *)
(* epsilon and the values of np.random.rand() are fixed-point numbers in   *)
(* units of 10^-9 (1.0 is 10^9); a product is rounded to the nearest unit. *)
(* A Python dict is a sequence of <<key, value>> pairs in insertion order, *)
(* None is the empty sequence, a deque is a sequence (left end first).     *)
(***************************************************************************)
EXTENDS Integers, Sequences, FiniteSets, TLC

VARIABLES emotion_reward_map, initiative_map, previous_state,
          current_user_emotion, epsilon, memory, model, opt_steps,
          call, ret, err, pushed, ncalls, singleton

vars == <<emotion_reward_map, initiative_map, previous_state,
          current_user_emotion, epsilon, memory, model, opt_steps,
          call, ret, err, pushed, ncalls, singleton>>

(***************************************************************************)
(* Bounds of the exploration.  maxlen is the capacity of the replay buffer,*)
(* deque(maxlen=4000) in the source: the model scales it down so that a    *)
(* full buffer and its evictions are reached; every statement about the    *)
(* buffer is made for maxlen, whatever its value.                          *)
(***************************************************************************)
MaxCalls == 3

MaxPushes == 5

MaxReplays == 922

maxlen == 2

(***************************************************************************)
(* Module-level and constructor constants.                                 *)
(***************************************************************************)
emotions == <<"anger", "disgust", "fear", "joy", "neutral", "sadness", "surprise">>

state_size == Len(emotions) * 2

action_size == 3

gamma == 95

EpsOne == 1000000000

epsilon_min == 10000000

epsilon_decay == 995

InitialValue == 10

InitiativeStep == 1

None == <<>>

(***************************************************************************)
(* Inputs.  UnknownLabel is a label outside the emotion set.               *)
(***************************************************************************)
UnknownLabel == "rage"

Labels == {"joy", UnknownLabel}

RespondLabels == {"joy"}

Feedbacks == {-5, 10}

RandVals == {0, 999999999}

Actions == 0 .. (action_size - 1)

BatchSizes == {1, 2}

EpsilonArgs == {EpsOne, 0}

(***************************************************************************)
(* Python dict operations on insertion-ordered sequences of pairs.         *)
(***************************************************************************)
DictFromKeys(keys, v) == [i \in DOMAIN keys |-> <<keys[i], v>>]

DictKeys(d) == {d[i][1] : i \in DOMAIN d}

DictValues(d) == [i \in DOMAIN d |-> d[i][2]]

DictGet(d, k) == d[CHOOSE i \in DOMAIN d : d[i][1] = k][2]

\* Variant of DictSet: the key is deleted and inserted again, at the end.
DictSetReinsert(d, k, v) ==
    LET others == {i \in DOMAIN d : d[i][1] # k}
        Nth(n) == CHOOSE i \in others : Cardinality({j \in others : j < i}) = n - 1
    IN [n \in 1 .. Cardinality(others) |-> d[Nth(n)]] \o <<(<<k, v>>)>>

\* d[k] = v: an existing key keeps its position, a new key is appended.
DictSet(d, k, v) ==
    IF k \in DictKeys(d)
    THEN [i \in DOMAIN d |-> IF d[i][1] = k THEN <<k, v>> ELSE d[i]]
    ELSE Append(d, <<k, v>>)

(***************************************************************************)
(* get_current_state: the reward values followed by the initiative values, *)
(* each in dict order.                                                     *)
(***************************************************************************)
StateOf(rmap, imap) == DictValues(rmap) \o DictValues(imap)

get_current_state == StateOf(emotion_reward_map, initiative_map)

(***************************************************************************)
(* DQN.  The network is abstracted to one input feature, the sum of the    *)
(* state vector: output a is b[a] + w[a] * sum(state).  The parameters are *)
(* the record [w, b]; the initial parameters are drawn at random by torch. *)
(***************************************************************************)
RECURSIVE SumSeq(_)
SumSeq(s) == IF s = <<>> THEN 0 ELSE Head(s) + SumSeq(Tail(s))

ParamsZero == [w |-> <<0, 0, 0>>, b |-> <<0, 0, 0>>]

ParamsSlope == [w |-> <<1, 0, -1>>, b |-> <<-151, 0, 151>>]

InitModels == {ParamsZero, ParamsSlope}

forward(m, x) == [a \in 1 .. action_size |-> m.b[a] + m.w[a] * SumSeq(x)]

MaxOf(v) == CHOOSE x \in {v[i] : i \in DOMAIN v} : \A j \in DOMAIN v : v[j] <= x

\* torch.argmax: the index (from 0) of the first maximal value.
Argmax(v) == (CHOOSE i \in DOMAIN v :
                 /\ v[i] = MaxOf(v)
                 /\ \A j \in DOMAIN v : v[j] = MaxOf(v) => i <= j) - 1

(***************************************************************************)
(* act: r is the value of np.random.rand(), x the value of                 *)
(* random.randrange(action_size).                                          *)
(***************************************************************************)
Explores(r) == r <= epsilon

act(state, r, x) == IF Explores(r) THEN x ELSE Argmax(forward(model, state))

ActOutcomes(state) == {act(state, r, x) : r \in RandVals, x \in Actions}

(***************************************************************************)
(* map_action_to_emotions.  sorted(..., reverse=True) is stable: items     *)
(* with equal keys keep their order.  SortedDesc is an insertion sort that *)
(* puts an item after the items whose value is greater or equal.           *)
(***************************************************************************)
\* Variant of InsertDesc: an item goes before the items of equal value.
InsertDescUnstable(sorted, item) ==
    LET before == {i \in DOMAIN sorted : sorted[i][2] > item[2]}
        n == Cardinality(before)
    IN SubSeq(sorted, 1, n) \o <<item>> \o SubSeq(sorted, n + 1, Len(sorted))

InsertDesc(sorted, item) ==
    LET before == {i \in DOMAIN sorted : sorted[i][2] >= item[2]}
        n == Cardinality(before)
    IN SubSeq(sorted, 1, n) \o <<item>> \o SubSeq(sorted, n + 1, Len(sorted))

RECURSIVE SortedDesc(_)
SortedDesc(items) ==
    IF items = <<>> THEN <<>>
    ELSE InsertDesc(SortedDesc(SubSeq(items, 1, Len(items) - 1)), items[Len(items)])

\* Variant of map_action_to_emotions: the second entry repeats the first.
map_action_to_emotions_repeat(action) ==
    LET sorted_emotions == SortedDesc(initiative_map)
    IN IF action = 0 THEN <<sorted_emotions[1][1]>>
       ELSE IF action = 1 THEN <<sorted_emotions[1][1], sorted_emotions[1][1]>>
       ELSE <<sorted_emotions[1][1], sorted_emotions[1][1], sorted_emotions[3][1]>>

map_action_to_emotions(action) ==
    LET sorted_emotions == SortedDesc(initiative_map)
    IN IF action = 0 THEN <<sorted_emotions[1][1]>>
       ELSE IF action = 1 THEN <<sorted_emotions[1][1], sorted_emotions[2][1]>>
       ELSE <<sorted_emotions[1][1], sorted_emotions[2][1], sorted_emotions[3][1]>>

(***************************************************************************)
(* The replay buffer: deque(maxlen).  append on a full deque drops the     *)
(* leftmost element.                                                       *)
(***************************************************************************)
\* Variant of DequeAppend: a full deque drops its rightmost element.
DequeAppendDropNewest(q, x) ==
    IF Len(q) = maxlen THEN Append(SubSeq(q, 1, Len(q) - 1), x) ELSE Append(q, x)

DequeAppend(q, x) == IF Len(q) = maxlen THEN Append(Tail(q), x) ELSE Append(q, x)

(***************************************************************************)
(* replay's loop body for one transition t = (state, action, reward,       *)
(* next_state, done).  The optimizer step is abstracted to moving the      *)
(* output of the chosen action one unit towards the target.                *)
(***************************************************************************)
RoundDiv(a, b) == (2 * a + b) \div (2 * b)

Sign(x) == IF x > 0 THEN 1 ELSE IF x < 0 THEN -1 ELSE 0

Target(m, t) ==
    IF t[5] THEN t[3] ELSE t[3] + RoundDiv(gamma * MaxOf(forward(m, t[4])), 100)

TrainOne(m, t) ==
    [m EXCEPT !.b[t[2] + 1] = @ + Sign(Target(m, t) - forward(m, t[1])[t[2] + 1])]

RECURSIVE TrainAll(_, _)
TrainAll(m, minibatch) ==
    IF minibatch = <<>> THEN m
    ELSE TrainAll(TrainOne(m, Head(minibatch)), Tail(minibatch))

\* Variant of Samples: k positions drawn with replacement.
SamplesWithReplacement(n, k) == [1 .. k -> 1 .. n]

\* random.sample(memory, k): k pairwise distinct positions, in any order.
Samples(n, k) == {s \in [1 .. k -> 1 .. n] : \A i, j \in 1 .. k : s[i] = s[j] => i = j}

\* epsilon *= epsilon_decay, rounded to the nearest unit.
Decayed(e) == (e \div 1000) * epsilon_decay + ((e % 1000) * epsilon_decay + 500) \div 1000

\* Variant of DecayEpsilon: the floor is not consulted.
DecayEpsilonAlways(e) == Decayed(e)

DecayEpsilon(e) == IF e > epsilon_min THEN Decayed(e) ELSE e

(***************************************************************************)
(* __new__ and __init__: the state after the first construction.  epsilon  *)
(* is a constructor argument (default 1.0).  singleton holds the class     *)
(* attribute _instance (objects are numbered from 1, 0 is None) and the    *)
(* attribute _initialized of that object.                                  *)
(***************************************************************************)
NoCall == [op |-> "__init__", args |-> <<>>, rnd |-> <<>>]

InitWith(eps, m) ==
    /\ emotion_reward_map = DictFromKeys(emotions, InitialValue)
    /\ initiative_map = DictFromKeys(emotions, InitialValue)
    /\ current_user_emotion = "neutral"
    /\ epsilon = eps
    /\ previous_state = None
    /\ memory = <<>>
    /\ model = m
    /\ opt_steps = 0
    /\ call = NoCall
    /\ ret = None
    /\ err = "None"
    /\ pushed = <<>>
    /\ ncalls = 0
    /\ singleton = [instance |-> 1, initialized |-> TRUE]

Init == \E eps \in EpsilonArgs, m \in InitModels : InitWith(eps, m)

(***************************************************************************)
(* A later construction EmotionHandler(epsilon=eps).  __new__ returns the  *)
(* object of _instance, creating it when _instance is None; __init__       *)
(* returns at once when that object is initialized and assigns every       *)
(* attribute otherwise, m being the parameters torch then draws.           *)
(***************************************************************************)
NewInstance(instance) == IF instance = 0 THEN 1 ELSE instance

\* Variant of SkipsInit: __init__ never skips.
SkipsInitNever(initialized) == FALSE

SkipsInit(initialized) == initialized

Construct(eps) ==
    /\ call' = [op |-> "EmotionHandler", args |-> <<eps>>, rnd |-> <<>>]
    /\ ret' = <<NewInstance(singleton.instance)>>
    /\ err' = "None"
    /\ singleton' = [instance |-> NewInstance(singleton.instance), initialized |-> TRUE]
    /\ IF SkipsInit(singleton.initialized)
       THEN UNCHANGED <<emotion_reward_map, initiative_map, previous_state,
                        current_user_emotion, epsilon, memory, model, opt_steps>>
       ELSE /\ emotion_reward_map' = DictFromKeys(emotions, InitialValue)
            /\ initiative_map' = DictFromKeys(emotions, InitialValue)
            /\ current_user_emotion' = "neutral"
            /\ epsilon' = eps
            /\ previous_state' = None
            /\ memory' = <<>>
            /\ model' \in InitModels
            /\ opt_steps' = 0
    /\ UNCHANGED <<pushed, ncalls>>

(***************************************************************************)
(* update_emotion_and_initiative.  d[k] += v reads d[k] first and raises   *)
(* KeyError when k is no key of d.                                         *)
(***************************************************************************)
\* Variant of UpdateResult: the initiative is assigned, not incremented.
UpdateResultAssign(rmap, imap, e, f) ==
    LET prev == StateOf(rmap, imap)
        rmap1 == DictSet(rmap, e, DictGet(rmap, e) + f)
        imap1 == DictSet(imap, e, InitialValue + InitiativeStep)
    IN IF e \notin DictKeys(rmap)
       THEN [rmap |-> rmap, imap |-> imap, prev |-> prev, err |-> "KeyError"]
       ELSE [rmap |-> rmap1, imap |-> imap1, prev |-> prev, err |-> "None"]

\* Variant of UpdateResult: a missing key is read as 0 and inserted.
UpdateResultCoerce(rmap, imap, e, f) ==
    LET prev == StateOf(rmap, imap)
        Old(d) == IF e \in DictKeys(d) THEN DictGet(d, e) ELSE 0
    IN [rmap |-> DictSet(rmap, e, Old(rmap) + f),
        imap |-> DictSet(imap, e, Old(imap) + InitiativeStep),
        prev |-> prev, err |-> "None"]

UpdateResult(rmap, imap, e, f) ==
    LET prev == StateOf(rmap, imap)
        rmap1 == DictSet(rmap, e, DictGet(rmap, e) + f)
        imap1 == DictSet(imap, e, DictGet(imap, e) + InitiativeStep)
    IN IF e \notin DictKeys(rmap)
       THEN [rmap |-> rmap, imap |-> imap, prev |-> prev, err |-> "KeyError"]
       ELSE IF e \notin DictKeys(imap)
       THEN [rmap |-> rmap1, imap |-> imap, prev |-> prev, err |-> "KeyError"]
       ELSE [rmap |-> rmap1, imap |-> imap1, prev |-> prev, err |-> "None"]

update_emotion_and_initiative(user_prompt_emotion, feedback) ==
    \E u \in {UpdateResult(emotion_reward_map, initiative_map, user_prompt_emotion, feedback)} :
       /\ emotion_reward_map' = u.rmap
       /\ initiative_map' = u.imap
       /\ previous_state' = u.prev
       /\ err' = u.err
       /\ ret' = None
       /\ call' = [op |-> "update_emotion_and_initiative",
                   args |-> <<user_prompt_emotion, feedback>>, rnd |-> <<>>]
       /\ ncalls' = ncalls + 1
       /\ UNCHANGED <<current_user_emotion, epsilon, memory, model, opt_steps, pushed,
                      singleton>>

(***************************************************************************)
(* remember.                                                               *)
(***************************************************************************)
remember(t) ==
    /\ memory' = DequeAppend(memory, t)
    /\ pushed' = Append(pushed, t)
    /\ err' = "None"
    /\ ret' = None
    /\ call' = [op |-> "remember", args |-> t, rnd |-> <<>>]
    /\ ncalls' = ncalls + 1
    /\ UNCHANGED <<singleton, emotion_reward_map, initiative_map, previous_state,
                   current_user_emotion, epsilon, model, opt_steps>>

(***************************************************************************)
(* The read-only operations.                                               *)
(***************************************************************************)
Reads(op, args, rnd, result) ==
    /\ call' = [op |-> op, args |-> args, rnd |-> rnd]
    /\ ret' = result
    /\ err' = "None"
    /\ UNCHANGED <<singleton, emotion_reward_map, initiative_map, previous_state,
                   current_user_emotion, epsilon, memory, model, opt_steps,
                   pushed, ncalls>>

GetCurrentState == Reads("get_current_state", <<>>, <<>>, get_current_state)

GetPreviousState == Reads("get_previous_state", <<>>, <<>>, previous_state)

MapActionToEmotions(action) ==
    Reads("map_action_to_emotions", <<action>>, <<>>, map_action_to_emotions(action))

Act(r, x) == Reads("act", <<get_current_state>>, <<r, x>>, <<act(get_current_state, r, x)>>)

\* action is the result of act on the current state.
choose_emotions_based_on_initiative(action) ==
    /\ action \in ActOutcomes(get_current_state)
    /\ Reads("choose_emotions_based_on_initiative", <<>>, <<action>>,
             map_action_to_emotions(action))

(***************************************************************************)
(* learn_from_inference.  feedback is the value of random.uniform(-1, 1),  *)
(* action the result of act on the state after the update.  An error of    *)
(* the update propagates: nothing is remembered.                           *)
(***************************************************************************)
\* Variant of LearnEffect: the pushed transition is also trained on at once.
LearnEffectTrains(feedback, action) ==
    \E u \in {UpdateResult(emotion_reward_map, initiative_map, current_user_emotion, feedback)} :
      \E current_state \in {StateOf(u.rmap, u.imap)} :
        /\ action \in ActOutcomes(current_state)
        /\ emotion_reward_map' = u.rmap
        /\ initiative_map' = u.imap
        /\ previous_state' = u.prev
        /\ err' = u.err
        /\ IF u.err = "None"
           THEN \E t \in {<<current_state, action, feedback, u.prev, FALSE>>} :
                    /\ memory' = DequeAppend(memory, t)
                    /\ pushed' = Append(pushed, t)
                    /\ model' = TrainOne(model, t)
           ELSE UNCHANGED <<memory, pushed, model>>
        /\ ncalls' = ncalls + 1
        /\ UNCHANGED <<current_user_emotion, epsilon, opt_steps, singleton>>

LearnEffect(feedback, action) ==
    \E u \in {UpdateResult(emotion_reward_map, initiative_map, current_user_emotion, feedback)} :
      \E current_state \in {StateOf(u.rmap, u.imap)} :
        /\ action \in ActOutcomes(current_state)
        /\ emotion_reward_map' = u.rmap
        /\ initiative_map' = u.imap
        /\ previous_state' = u.prev
        /\ err' = u.err
        /\ IF u.err = "None"
           THEN \E t \in {<<current_state, action, feedback, u.prev, FALSE>>} :
                    /\ memory' = DequeAppend(memory, t)
                    /\ pushed' = Append(pushed, t)
           ELSE UNCHANGED <<memory, pushed>>
        /\ ncalls' = ncalls + 1
        /\ UNCHANGED <<current_user_emotion, epsilon, model, opt_steps, singleton>>

learn_from_inference(feedback, action) ==
    /\ LearnEffect(feedback, action)
    /\ ret' = None
    /\ call' = [op |-> "learn_from_inference", args |-> <<>>, rnd |-> <<>>]

(***************************************************************************)
(* get_llm_response_emotion: chosen is the action act returns inside       *)
(* choose_emotions_based_on_initiative, before learn_from_inference runs.  *)
(* The argument user_prompt_emotion is not read.                           *)
(***************************************************************************)
get_llm_response_emotion(user_prompt_emotion, chosen, feedback, action) ==
    /\ chosen \in ActOutcomes(get_current_state)
    /\ \E emotions_to_use \in {map_action_to_emotions(chosen)} :
          /\ LearnEffect(feedback, action)
          /\ ret' = IF err' = "None" THEN emotions_to_use ELSE None
    /\ call' = [op |-> "get_llm_response_emotion", args |-> <<user_prompt_emotion>>,
                rnd |-> <<chosen>>]

(***************************************************************************)
(* replay.  sample is the sequence of buffer positions random.sample       *)
(* draws; it is read only when the buffer holds batch_size transitions.    *)
(***************************************************************************)
Trains(batch_size) == Len(memory) >= batch_size

\* Variant of ReplayResult: epsilon decays also when nothing is trained.
ReplayResultAlwaysDecays(m, eps, steps, batch_size, minibatch) ==
    IF Len(memory) < batch_size
    THEN [model |-> m, epsilon |-> DecayEpsilon(eps), opt_steps |-> steps]
    ELSE [model |-> TrainAll(m, minibatch), epsilon |-> DecayEpsilon(eps),
          opt_steps |-> steps + Len(minibatch)]

\* Variant of ReplayResult: epsilon decays once per trained transition.
ReplayResultDecaysPerTransition(m, eps, steps, batch_size, minibatch) ==
    IF Len(memory) < batch_size
    THEN [model |-> m, epsilon |-> eps, opt_steps |-> steps]
    ELSE [model |-> TrainAll(m, minibatch),
          epsilon |-> IF Len(minibatch) > 1 THEN DecayEpsilon(DecayEpsilon(eps))
                      ELSE DecayEpsilon(eps),
          opt_steps |-> steps + Len(minibatch)]

ReplayResult(m, eps, steps, batch_size, minibatch) ==
    IF Len(memory) < batch_size
    THEN [model |-> m, epsilon |-> eps, opt_steps |-> steps]
    ELSE [model |-> TrainAll(m, minibatch), epsilon |-> DecayEpsilon(eps),
          opt_steps |-> steps + Len(minibatch)]

\* Variant of replay: a training call consumes the oldest transition.
replay_consuming(batch_size, sample) ==
    /\ sample \in IF Trains(batch_size) THEN Samples(Len(memory), batch_size) ELSE {<<>>}
    /\ \E r \in {ReplayResult(model, epsilon, opt_steps, batch_size,
                              [i \in DOMAIN sample |-> memory[sample[i]]])} :
          /\ model' = r.model
          /\ epsilon' = r.epsilon
          /\ opt_steps' = r.opt_steps
    /\ ncalls' = IF Trains(batch_size) THEN ncalls + 1 ELSE ncalls
    /\ call' = [op |-> "replay", args |-> <<batch_size>>, rnd |-> sample]
    /\ ret' = None
    /\ err' = "None"
    /\ memory' = IF Trains(batch_size) THEN Tail(memory) ELSE memory
    /\ UNCHANGED <<singleton, emotion_reward_map, initiative_map, previous_state,
                   current_user_emotion, pushed>>

replay(batch_size, sample) ==
    /\ sample \in IF Trains(batch_size) THEN Samples(Len(memory), batch_size) ELSE {<<>>}
    /\ \E r \in {ReplayResult(model, epsilon, opt_steps, batch_size,
                              [i \in DOMAIN sample |-> memory[sample[i]]])} :
          /\ model' = r.model
          /\ epsilon' = r.epsilon
          /\ opt_steps' = r.opt_steps
    /\ ncalls' = IF Trains(batch_size) THEN ncalls + 1 ELSE ncalls
    /\ call' = [op |-> "replay", args |-> <<batch_size>>, rnd |-> sample]
    /\ ret' = None
    /\ err' = "None"
    /\ UNCHANGED <<singleton, emotion_reward_map, initiative_map, previous_state,
                   current_user_emotion, memory, pushed>>

(***************************************************************************)
(* Spec: the engine under arbitrary calls of its methods, at most MaxCalls *)
(* of them changing the engine.  A read-only call changes nothing but the  *)
(* record of the last call (call, ret, err), which the next call           *)
(* overwrites: what follows it is what follows the state it was made in.   *)
(* The exploration therefore makes a read-only call from every state       *)
(* reached by the other calls and does not continue after it.              *)
(***************************************************************************)
ReadOps == {"get_current_state", "get_previous_state", "map_action_to_emotions",
            "act", "choose_emotions_based_on_initiative", "EmotionHandler"}

Explored == call.op \notin ReadOps

TerminalTransition == <<get_current_state, 0, 10, get_current_state, TRUE>>

Update == /\ Explored /\ ncalls < MaxCalls
          /\ \E e \in Labels, f \in Feedbacks : update_emotion_and_initiative(e, f)

Remember == Explored /\ ncalls < MaxCalls /\ remember(TerminalTransition)

Learn == /\ Explored /\ ncalls < MaxCalls
         /\ \E f \in Feedbacks, a \in Actions : learn_from_inference(f, a)

Respond == /\ Explored /\ ncalls < MaxCalls
           /\ \E e \in RespondLabels, c \in Actions, f \in Feedbacks, a \in Actions :
                  get_llm_response_emotion(e, c, f, a)

Replay == \E k \in BatchSizes :
              /\ Explored
              /\ IF Trains(k)
                 THEN ncalls < MaxCalls /\ \E s \in Samples(Len(memory), k) : replay(k, s)
                 ELSE replay(k, <<>>)

ActCall == Explored /\ \E r \in RandVals, x \in Actions : Act(r, x)

Choose == Explored /\ \E a \in Actions : choose_emotions_based_on_initiative(a)

MapAction == Explored /\ \E a \in Actions : MapActionToEmotions(a)

ReadState == Explored /\ GetCurrentState

ReadPrevious == Explored /\ GetPreviousState

Reconstruct == Explored /\ \E eps \in EpsilonArgs : Construct(eps)

Next ==
    \/ Update
    \/ Remember
    \/ Learn
    \/ Respond
    \/ Replay
    \/ ActCall
    \/ Choose
    \/ MapAction
    \/ ReadState
    \/ ReadPrevious
    \/ Reconstruct

Spec == Init /\ [][Next]_vars

(***************************************************************************)
(* SpecBuffer: a default engine on which remember is called up to          *)
(* MaxPushes times.                                                        *)
(***************************************************************************)
InitDefault == \E m \in InitModels : InitWith(EpsOne, m)

Push == /\ ncalls < MaxPushes
        /\ \E a \in Actions, f \in Feedbacks :
               remember(<<get_current_state, a, f, get_current_state, FALSE>>)

NextBuffer == Push

SpecBuffer == InitDefault /\ [][NextBuffer]_vars

(***************************************************************************)
(* SpecReplay: a default engine on which learn_from_inference is called    *)
(* once and replay then up to MaxReplays times.                            *)
(***************************************************************************)
Fill == /\ memory = <<>>
        /\ \E f \in Feedbacks, a \in Actions : learn_from_inference(f, a)

Train == /\ ncalls < MaxReplays
         /\ \E k \in BatchSizes :
                \E s \in IF Trains(k) THEN Samples(Len(memory), k) ELSE {<<>>} : replay(k, s)

NextReplay == Fill \/ Train

SpecReplay == InitDefault /\ [][NextReplay]_vars

(***************************************************************************)
(* SpecReplayFair: SpecReplay in which the caller keeps going: it makes    *)
(* the learn_from_inference call, and it keeps calling replay with a       *)
(* batch_size the buffer can serve, as long as a call is left.             *)
(***************************************************************************)
TrainingReplay == Train /\ opt_steps' > opt_steps

SpecReplayFair == SpecReplay /\ WF_vars(Fill) /\ WF_vars(TrainingReplay)

(***************************************************************************)
(* Properties.                                                             *)
(***************************************************************************)
EmotionSet == {emotions[i] : i \in DOMAIN emotions}

KeyOrder(d) == [i \in DOMAIN d |-> d[i][1]]

IsUpdate(e, f) ==
    call'.op = "update_emotion_and_initiative" /\ call'.args = <<e, f>>

\* C1: a step update_emotion_and_initiative(e, f) with e in the emotion set
\* adds exactly f to reward[e] and exactly 0.1 to initiative[e], and leaves
\* the reward and the initiative of every other emotion as they were.
C1_UpdateAddsFeedbackAndStep ==
    [][\A e \in EmotionSet, f \in Feedbacks :
          IsUpdate(e, f) =>
             /\ err' = "None"
             /\ DictGet(emotion_reward_map', e) = DictGet(emotion_reward_map, e) + f
             /\ DictGet(initiative_map', e) = DictGet(initiative_map, e) + InitiativeStep
             /\ \A o \in EmotionSet \ {e} :
                   /\ DictGet(emotion_reward_map', o) = DictGet(emotion_reward_map, o)
                   /\ DictGet(initiative_map', o) = DictGet(initiative_map, o)]_vars

\* C1 witness: joy has been updated twice, the last time with feedback 1.0.
C1_Witness ==
    /\ call.op = "update_emotion_and_initiative"
    /\ call.args = <<"joy", 10>>
    /\ DictGet(initiative_map, "joy") = InitialValue + 2 * InitiativeStep
    /\ DictGet(emotion_reward_map, "joy") = InitialValue + 20

\* C2 (as claimed): a step get_llm_response_emotion(e) adds some feedback f to
\* reward[e] and 0.1 to initiative[e], and changes no other emotion's entries.
C2_RespondUpdatesGivenEmotion ==
    [][\A e \in EmotionSet :
          (call'.op = "get_llm_response_emotion" /\ call'.args = <<e>>) =>
             /\ \E f \in Feedbacks :
                   DictGet(emotion_reward_map', e) = DictGet(emotion_reward_map, e) + f
             /\ DictGet(initiative_map', e) = DictGet(initiative_map, e) + InitiativeStep
             /\ \A o \in EmotionSet \ {e} :
                   /\ DictGet(emotion_reward_map', o) = DictGet(emotion_reward_map, o)
                   /\ DictGet(initiative_map', o) = DictGet(initiative_map, o)]_vars

NoRepeat(s) == \A i, j \in DOMAIN s : s[i] = s[j] => i = j

\* C3: the list returned by get_llm_response_emotion, by
\* choose_emotions_based_on_initiative and by map_action_to_emotions has
\* length action + 1, which is 1, 2 or 3, holds only emotions of the fixed
\* set and holds no emotion twice.
C3_ReturnedListWellFormed ==
    (/\ call.op \in {"get_llm_response_emotion", "choose_emotions_based_on_initiative",
                     "map_action_to_emotions"}
     /\ err = "None") =>
        /\ Len(ret) \in {1, 2, 3}
        /\ Len(ret) = (IF call.op = "map_action_to_emotions"
                       THEN call.args[1] ELSE call.rnd[1]) + 1
        /\ \A i \in DOMAIN ret : ret[i] \in EmotionSet
        /\ NoRepeat(ret)

\* C3 witness: the composite operation has returned three emotions.
C3_Witness ==
    /\ call.op = "get_llm_response_emotion"
    /\ err = "None"
    /\ Len(ret) = 3

\* The position of an emotion in the ranking by initiative, descending, ties
\* in the order of the emotion set.
InitiativeOf == [i \in DOMAIN emotions |-> DictGet(initiative_map, emotions[i])]

RankIn(v, i) ==
    1 + Cardinality({j \in DOMAIN v : v[j] > v[i] \/ (v[j] = v[i] /\ j < i)})

RankingOf(v) == [n \in DOMAIN v |-> emotions[CHOOSE i \in DOMAIN v : RankIn(v, i) = n]]

\* C4: for every action a, map_action_to_emotions(a) is the first a + 1
\* emotions of the ranking by initiative, descending, emotions of equal
\* initiative in the order of the emotion set.
C4_MapIsRankingPrefix ==
    \E ranking \in {RankingOf(InitiativeOf)} :
       /\ \A a \in Actions : map_action_to_emotions(a) = SubSeq(ranking, 1, a + 1)
       /\ call.op = "map_action_to_emotions" => ret = SubSeq(ranking, 1, call.args[1] + 1)

\* C4 witness: joy leads, neutral follows, and anger is the first of the tied
\* rest; map_action_to_emotions(2) has returned them.
C4_Witness ==
    /\ call.op = "map_action_to_emotions"
    /\ call.args = <<2>>
    /\ DictGet(initiative_map, "joy") > DictGet(initiative_map, "neutral")
    /\ DictGet(initiative_map, "neutral") > DictGet(initiative_map, "anger")
    /\ DictGet(initiative_map, "anger") = DictGet(initiative_map, "disgust")
    /\ ret = <<"joy", "neutral", "anger">>

\* C4 witness of a tie at the top: on the fresh engine every emotion is tied.
C4_TieWitness ==
    /\ call.op = "map_action_to_emotions"
    /\ \A e \in EmotionSet : DictGet(initiative_map, e) = InitialValue
    /\ ret = <<"anger", "disgust", "fear">>

LastOf(s, n) == SubSeq(s, Len(s) - n + 1, Len(s))

Min(a, b) == IF a <= b THEN a ELSE b

\* C5: the buffer never holds more than maxlen transitions, and it is the
\* last min(pushes, maxlen) transitions pushed, in the order they were pushed.
C5_BufferIsLastPushes ==
    /\ Len(memory) <= maxlen
    /\ Len(memory) = Min(Len(pushed), maxlen)
    /\ memory = LastOf(pushed, Len(memory))

\* C5 witness: after maxlen + 1 pushes the first transition pushed is gone and
\* the buffer starts with the second.
C5_Witness ==
    /\ Len(pushed) = maxlen + 1
    /\ Len(memory) = maxlen
    /\ memory[1] = pushed[2]
    /\ \A i \in DOMAIN memory : memory[i] # pushed[1]

\* C6 (as claimed): epsilon stays between epsilon_min and 1.0.
C6_EpsilonFloored == epsilon_min <= epsilon /\ epsilon <= EpsOne

\* C7: a step replay(batch_size) taken while the buffer holds fewer than
\* batch_size transitions raises nothing and leaves the parameters, the
\* optimizer, epsilon, the buffer and both maps as they were.
C7_ShortBufferReplayIsNoOp ==
    [][\A k \in BatchSizes :
          (call'.op = "replay" /\ call'.args = <<k>> /\ Len(memory) < k) =>
             /\ err' = "None"
             /\ UNCHANGED <<model, opt_steps, epsilon, memory,
                            emotion_reward_map, initiative_map>>]_vars

\* C7 witness: replay(2) has been called on a buffer of one transition, with
\* epsilon above epsilon_min.
C7_Witness ==
    /\ call.op = "replay"
    /\ call.args = <<2>>
    /\ Len(memory) = 1
    /\ epsilon > epsilon_min

\* C8 (as claimed): with epsilon = 0, act returns the argmax of the scores of
\* its state and does not explore, whatever np.random.rand() returns.
C8_GreedyAtZeroEpsilon ==
    (call.op = "act" /\ epsilon = 0) =>
        /\ ret = <<Argmax(forward(model, call.args[1]))>>
        /\ ~Explores(call.rnd[1])

\* C9: a step update_emotion_and_initiative with a label outside the emotion
\* set raises KeyError and changes neither map: no key is inserted, no value
\* changes, and the keys of both maps are the emotion set.
C9_UnknownLabelFails ==
    [][\A f \in Feedbacks :
          IsUpdate(UnknownLabel, f) =>
             /\ err' = "KeyError"
             /\ emotion_reward_map' = emotion_reward_map
             /\ initiative_map' = initiative_map
             /\ DictKeys(emotion_reward_map') = EmotionSet
             /\ DictKeys(initiative_map') = EmotionSet
             /\ Len(emotion_reward_map') = Len(emotions)
             /\ Len(initiative_map') = Len(emotions)]_vars

\* C9 witness: an update with the unknown label has failed on an engine whose
\* maps had been updated before.
C9_Witness ==
    /\ call.op = "update_emotion_and_initiative"
    /\ call.args[1] = UnknownLabel
    /\ err = "KeyError"
    /\ DictGet(initiative_map, "joy") > InitialValue

\* The state vector the claim describes: the rewards of the emotions in
\* construction order, then their initiatives in the same order.
DescribedState ==
    [i \in 1 .. 2 * Len(emotions) |->
        IF i <= Len(emotions) THEN DictGet(emotion_reward_map, emotions[i])
        ELSE DictGet(initiative_map, emotions[i - Len(emotions)])]

C10_Vector ==
    /\ Len(get_current_state) = 2 * Len(emotions)
    /\ get_current_state = DescribedState
    /\ KeyOrder(emotion_reward_map) = emotions
    /\ KeyOrder(initiative_map) = emotions
    /\ call.op = "get_current_state" => ret = DescribedState

\* C10: in every reachable state get_current_state is the vector of length
\* 2 x |emotions| with reward[e_i] at i and initiative[e_i] at |emotions| + i,
\* e_i the i-th emotion in construction order; the key order of both maps
\* never changes; and a get_current_state step changes no engine state.
C10_StateVectorLayout ==
    /\ []C10_Vector
    /\ [][call'.op = "get_current_state" =>
             UNCHANGED <<emotion_reward_map, initiative_map, previous_state,
                         current_user_emotion, epsilon, memory, model, opt_steps>>]_vars

\* C10 witness: get_current_state has returned the vector of an engine whose
\* joy and neutral entries have been updated.
C10_Witness ==
    /\ call.op = "get_current_state"
    /\ ret[4] # InitialValue
    /\ ret[Len(emotions) + 4] = InitialValue + InitiativeStep
    /\ ret[Len(emotions) + 5] = InitialValue + InitiativeStep

EngineVars == <<emotion_reward_map, initiative_map, previous_state,
                current_user_emotion, epsilon, memory, model, opt_steps>>

\* C11: every construction after the first returns the one instance and
\* resets nothing: both maps, the buffer, epsilon, the parameters and the
\* rest of the engine keep their values, whatever the arguments.
C11_SingletonKeepsState ==
    [][call'.op = "EmotionHandler" =>
          /\ ret' = <<singleton.instance>>
          /\ singleton'.instance = singleton.instance
          /\ UNCHANGED EngineVars]_vars

\* C11 witness: EmotionHandler(epsilon=0.0) has been called on an engine that
\* has learnt and trained; epsilon and the buffer are not those of a new engine.
C11_Witness ==
    /\ call.op = "EmotionHandler"
    /\ call.args = <<0>>
    /\ epsilon = Decayed(EpsOne)
    /\ memory # <<>>
    /\ DictGet(initiative_map, "neutral") > InitialValue

LearnCalls == {"learn_from_inference", "get_llm_response_emotion"}

LastPushed == memory[Len(memory)]

\* The feedback of the last update, read off the state vectors around it.
AppliedFeedback == SumSeq(get_current_state) - SumSeq(previous_state) - InitiativeStep

\* C12 (as claimed): the transition learn_from_inference pushes holds, as its
\* state, the state vector from before the update, as its next_state the
\* vector from after it, as its reward the feedback of that update, and
\* terminal = false.
C12_PushedTransitionForm ==
    (call.op \in LearnCalls /\ err = "None") =>
        /\ LastPushed[1] = previous_state
        /\ LastPushed[4] = get_current_state
        /\ LastPushed[3] = AppliedFeedback
        /\ LastPushed[5] = FALSE

\* C13 (as claimed): the action stored in the transition that one
\* get_llm_response_emotion call pushes is the action whose emotions the call
\* returns: the returned list has length stored action + 1.
C13_StoredActionIsReturnedAction ==
    (call.op = "get_llm_response_emotion" /\ err = "None") =>
        Len(ret) = LastPushed[2] + 1

\* C14 (as claimed): the list get_llm_response_emotion returns is the ranking
\* by the initiative values as they are after the call's update.
C14_ReturnedListRanksUpdatedInitiative ==
    (call.op = "get_llm_response_emotion" /\ err = "None") =>
        ret = SubSeq(RankingOf(InitiativeOf), 1, Len(ret))

\* A step that is a replay(k) call on a buffer of at least k transitions.
IsTrainingReplay(k) ==
    call'.op = "replay" /\ call'.args = <<k>> /\ Len(memory) >= k

\* C15: a replay(batch_size) call that trains multiplies epsilon by
\* epsilon_decay exactly once if epsilon was above epsilon_min and leaves it
\* as it was otherwise, whatever batch_size is.
C15_TrainingReplayDecaysOnce ==
    [][\A k \in BatchSizes :
          IsTrainingReplay(k) =>
             epsilon' = IF epsilon > epsilon_min THEN Decayed(epsilon) ELSE epsilon]_vars

\* C15 witness: replay(2) has trained on two transitions of a default engine
\* and epsilon is epsilon_decay, one decay below 1.0.
C15_Witness ==
    /\ call.op = "replay" /\ call.args = <<2>> /\ Len(call.rnd) = 2
    /\ epsilon = Decayed(EpsOne)

C17_SampleWithoutReplacement ==
    [][\A k \in BatchSizes :
          IsTrainingReplay(k) =>
             /\ Len(call'.rnd) = k
             /\ NoRepeat(call'.rnd)
             /\ \A i \in DOMAIN call'.rnd : call'.rnd[i] \in 1 .. Len(memory)
             /\ opt_steps' = opt_steps + k]_vars

\* C17 witness: replay(2) has trained on both transitions of a buffer of two,
\* newest first.
C17_Witness ==
    /\ call.op = "replay" /\ call.args = <<2>>
    /\ call.rnd = <<2, 1>>
    /\ Len(memory) = 2

\* C18 (as claimed): an update_emotion_and_initiative call that fails on an
\* unknown emotion leaves previous_state unchanged.
C18_FailedUpdateKeepsPreviousState ==
    [][(call'.op = "update_emotion_and_initiative" /\ err' # "None") =>
          previous_state' = previous_state]_vars

\* C19: a replay call, whatever batch_size is, leaves the replay buffer, the
\* reward map, the initiative map and previous_state unchanged.
C19_ReplayKeepsWhatItLearnsFrom ==
    [][call'.op = "replay" =>
          UNCHANGED <<memory, emotion_reward_map, initiative_map, previous_state>>]_vars

\* C19 witness: a replay call has trained and changed epsilon; the buffer
\* still holds its transition and previous_state is set.
C19_Witness ==
    /\ call.op = "replay" /\ Len(call.rnd) >= 1
    /\ opt_steps > 0 /\ epsilon \notin EpsilonArgs
    /\ memory # <<>> /\ previous_state # None

\* C20: epsilon never increases; a training replay strictly decreases it
\* while it is above epsilon_min; once it is at or below epsilon_min it never
\* changes again; and when replay keeps being called on a buffer of at least
\* batch_size transitions, epsilon does become at most epsilon_min.
C20_DecayTerminates ==
    /\ [][epsilon' <= epsilon]_vars
    /\ [][\A k \in BatchSizes :
             (IsTrainingReplay(k) /\ epsilon > epsilon_min) => epsilon' < epsilon]_vars
    /\ [][epsilon <= epsilon_min => epsilon' = epsilon]_vars
    /\ <>(epsilon <= epsilon_min)

\* C20 witness: a training replay has been called after epsilon went below
\* epsilon_min, and epsilon is still the value it had when it crossed.
C20_Witness ==
    /\ call.op = "replay" /\ Len(call.rnd) = 1
    /\ opt_steps = 920
    /\ epsilon = 9986450

====
